---- MODULE Spec2Model ----
(***************************************************************************)
(* Model of the nurulib browser toolkit:                                   *)
(*   - Network (static/network.js): the signals socket, the asynchronous   *)
(*     decode of each frame, the merge onto last_json, the dispatch to the  *)
(*     listeners, and sender.                                               *)
(*   - Lines (static/util.js, static/monitor.js and the later monitor      *)
(*     variant): the color bookkeeping of the scroll graph.                 *)
(*   - Monitor: the tick of the scroll graph, in its three variants.        *)
(*   - Console, debounce and observe of util.js, and the Dump panel that    *)
(*     observe suspends.                                                    *)
(***************************************************************************)
EXTENDS Integers, Sequences, FiniteSets, TLC

\* ------------------------------------------------------------------------
\* Bounds of the model.
\* ------------------------------------------------------------------------
MaxFrames == 2
MaxListeners == 2
MaxSends == 2
PaletteSize == 2
MaxTime == 2
MaxClock == 7
MaxEntries == 3
MaxClears == 2
MaxCalls == 4

\* ------------------------------------------------------------------------
\* JSON values.  A value is a set of <<field, number>> pairs: a scalar n is
\* {<<"", n>>}, a nested object {x: 1} is {<<"x", 1>>}.  A JSON object (a
\* message, the baseline) is a function from its own keys to values.
\* ------------------------------------------------------------------------
Num(n) == {<<"", n>>}

ObjX == {<<"x", 1>>}

ObjY == {<<"y", 2>>}

IsScalar(v) == \E p \in v : p[1] = ""

\* JavaScript truthiness: 0 / false are falsy, every object is truthy.
Truthy(v) == IF IsScalar(v) THEN \E p \in v : p[1] = "" /\ p[2] # 0 ELSE TRUE

EmptyObj == [k \in {} |-> {}]

Has(o, k) == k \in DOMAIN o

\* The signals messages the source process sends in this model.
MsgPartialObj == "a" :> ObjX

MsgFull == ("_full" :> Num(1)) @@ ("a" :> ObjY)

MsgState == "state" :> Num(1)

MsgMarkerOff == "_full" :> Num(0)

Messages == {MsgPartialObj, MsgFull, MsgState, MsgMarkerOff}

\* The text carried by a Blob frame: JSON.stringify of an object, or text
\* that is not JSON at all.
Stringify(o) == [ok |-> TRUE, obj |-> o]

BadText == [ok |-> FALSE, obj |-> EmptyObj]

Texts == {Stringify(m) : m \in Messages} \cup {BadText}

\* JSON.parse(data): throws on text that is not JSON.
ParseAccepts(data) == TRUE

ParseOk(data) == data.ok

JSONparse(data) == data.obj

\* Object.assign(target, source): shallow, key by key, the source wins.
AssignDeep(target, source) ==
  [k \in DOMAIN target \cup DOMAIN source |->
     IF k \in DOMAIN source
       THEN IF k \in DOMAIN target /\ ~IsScalar(target[k]) /\ ~IsScalar(source[k])
              THEN {p \in target[k] : \A q \in source[k] : q[1] # p[1]} \cup source[k]
              ELSE source[k]
       ELSE target[k]]

ObjectAssign(target, source) ==
  [k \in DOMAIN target \cup DOMAIN source |->
     IF k \in DOMAIN source THEN source[k] ELSE target[k]]

\* `if (!last_json._full) return`
GateOpen(lj) == TRUE

IsFull(lj) == Has(lj, "_full") /\ Truthy(lj["_full"])

\* ------------------------------------------------------------------------
\* Listeners.  "monitor" is Monitor.listener, "dump" the listener Dump
\* registers.
\* ------------------------------------------------------------------------
ListenerIds == {"monitor", "dump"}

\* listener(jsonListeners.has(listener) ? last_json : data)
PayloadData(l, jl, lj, data) == [json |-> FALSE, val |-> JSONparse(data)]

Payload(l, jl, lj, data) ==
  IF l \in jl THEN [json |-> TRUE, val |-> lj]
              ELSE [json |-> FALSE, val |-> JSONparse(data)]

\* Monitor.listener reads signals.state.indexOf: a TypeError when the
\* argument is a string or an object without a state field.
Throws(l, p) == l = "monitor" /\ (~p.json \/ ~Has(p.val, "state"))

\* Index of the first listener that throws, or Len(ls) when none does:
\* forEach stops at the first exception.
RECURSIVE LastInvoked(_, _, _, _, _)
LastInvoked(ls, jl, lj, data, i) ==
  IF i > Len(ls) THEN Len(ls)
  ELSE IF Throws(ls[i], Payload(ls[i], jl, lj, data)) THEN i
  ELSE LastInvoked(ls, jl, lj, data, i + 1)

\* listeners.signals.forEach(listener => listener(...)): the calls made.
ForEach(ls, jl, lj, data, n) ==
  LET k == LastInvoked(ls, jl, lj, data, 1)
  IN [i \in 1..k |-> [fwd |-> n, idx |-> i, listener |-> ls[i],
                      payload |-> Payload(ls[i], jl, lj, data)]]

ForEachThrows(ls, jl, lj, data) ==
  \E i \in 1..Len(ls) : Throws(ls[i], Payload(ls[i], jl, lj, data))

\* ------------------------------------------------------------------------
\* sender
\* ------------------------------------------------------------------------
ReadyStates == {"CONNECTING", "OPEN", "CLOSING", "CLOSED"}

ControlMsgs == {"newstate" :> Num(1), "logmel_src" :> Num(2), "overrides" :> ObjX}

AlwaysOpen(rs) == TRUE

\* socks.signals.readyState === socks.signals.OPEN
IsOpen(rs) == rs = "OPEN"

VARIABLES
  readyState,     \* socks.signals.readyState
  last_json,      \* the retained baseline
  listeners,      \* listeners.signals, in registration order
  jsonListeners,  \* the set jsonListeners
  inflight,       \* frames whose Response.text() promise is pending
  arrived,        \* number of message events seen so far
  merged,         \* history: the messages merged, in merge order
  delivered,      \* history: the listener calls made
  forwards,       \* history: number of dispatches
  last,           \* history: what the latest handler did
  escaped,        \* the exception that left the latest handler, "" if none
  dropped,        \* history: the frames dropped because their text is no JSON
  wire,           \* history: what socks.signals.send was given
  calls           \* history: the sender calls made

nvars == <<readyState, last_json, listeners, jsonListeners, inflight, arrived,
           merged, delivered, forwards, last, escaped, dropped, wire, calls>>

VARIABLES
  variant,    \* which Lines this is
  lines,      \* lines: per signal, the record and its color and t
  available,  \* the free queue
  checked,    \* the checked attribute of each signal's checkbox
  now,        \* the clock read by Date.now() / new Date().getTime()
  preset,     \* Monitor's current preset (old Monitor)
  lerr,       \* the exception that left the latest Lines handler, "" if none
  lop         \* history: the latest Lines handler, see Becomes

lvars == <<variant, lines, available, checked, now, preset, lerr, lop>>

\* The Monitor, the scrolling graph fed by the router
VARIABLES
  signals,    \* <<the snapshot of the latest tick>>, <<>> for null
  lastys,     \* the row each signal was last drawn at, by signal
  canvas,     \* the newest column of the graph: what was painted into it,
              \* and shift, which flips each time the image moves left
  text,       \* the element holding the state text, and its content
  logmel_on,  \* the value of the logmel toggle of the later Monitor
  unknown,    \* the names written to the unknown-signal area, in order
  merr        \* the exception that left the latest tick, "" if none

mvars == <<signals, lastys, canvas, text, logmel_on, unknown, merr>>

\* The rate limit of the router's 'Could not parse JSON' diagnostic
VARIABLES
  clock,      \* Date.now() as the router reads it, in units of 500 ms
  parse_t0,   \* parse_t0
  diags       \* history: the clock readings at which console.error was called

pvars == <<clock, parse_t0, diags>>

\* observe(target) and its consumer, the Dump panel
VARIABLES
  visibility,    \* document.visibilityState
  region,        \* history: isIntersecting of the latest entry, "none" before one
  intersecting,  \* whether the set intersecting holds the target
  running,       \* Dump's running
  dsignals,      \* Dump's signals, 0 for null
  shown,         \* Dump's shown
  live,          \* Dump's live
  output         \* the snapshot els.output shows, 0 for ''

ovars == <<visibility, region, intersecting, running, dsignals, shown, live, output>>

\* Console, the on-page mirror of window.console
VARIABLES
  console_src,  \* which Console this is
  entries,      \* the children of disp.console, the newest first
  attached,     \* whether disp.console is still a child of its parent
  cleared,      \* history: how often console.clear() was called
  cpc           \* where Console.clear is: "idle" or "loop"

cvars == <<console_src, entries, attached, cleared, cpc>>

\* debounce(fun, ms) for one fun
VARIABLES
  timers,     \* the pending timers: id, ms and the time left until it fires
  debounced,  \* debounced.get(fun), 0 if debounced has no fun
  next_id,    \* the id the next setTimeout returns
  runs,       \* history: how often fun has run
  burst       \* history: the time since the latest debounce(fun, ms) call

dvars == <<timers, debounced, next_id, runs, burst>>

hvars == <<ovars, cvars, dvars>>

NetInit ==
  /\ readyState = "CONNECTING"
  /\ last_json = EmptyObj
  /\ listeners = <<>>
  /\ jsonListeners = {}
  /\ inflight = {}
  /\ arrived = 0
  /\ merged = <<>>
  /\ delivered = <<>>
  /\ forwards = 0
  /\ last = [op |-> "init", id |-> 0]
  /\ escaped = ""
  /\ dropped = {}
  /\ wire = <<>>
  /\ calls = <<>>

\* let parse_t0 = Date.now()
ParseInit ==
  /\ clock = 0
  /\ parse_t0 = 0
  /\ diags = <<>>

\* The page at construction: visible, no entry of the observer delivered,
\* let running = true, let signals = null, shown and live false.
ObserveInit ==
  /\ visibility = "visible"
  /\ region = "none"
  /\ intersecting = FALSE
  /\ running = TRUE
  /\ dsignals = 0
  /\ shown = FALSE
  /\ live = FALSE
  /\ output = 0

ConsoleSrcs == {"util.js", "part_001"}

ConsoleInit ==
  /\ console_src \in ConsoleSrcs
  /\ entries = <<>>
  /\ attached = TRUE
  /\ cleared = 0
  /\ cpc = "idle"

\* const debounced = new Map()
DebounceInit ==
  /\ timers = {}
  /\ debounced = 0
  /\ next_id = 1
  /\ runs = 0
  /\ burst = 0

\* The socket's own life cycle (the transport, outside network.js).
SockOpen ==
  /\ readyState = "CONNECTING"
  /\ readyState' = "OPEN"
  /\ UNCHANGED <<last_json, listeners, jsonListeners, inflight, arrived,
                 merged, delivered, forwards, last, escaped, dropped, wire, calls, lvars, mvars, pvars, hvars>>

SockClosing ==
  /\ readyState \in {"CONNECTING", "OPEN"}
  /\ readyState' = "CLOSING"
  /\ UNCHANGED <<last_json, listeners, jsonListeners, inflight, arrived,
                 merged, delivered, forwards, last, escaped, dropped, wire, calls, lvars, mvars, pvars, hvars>>

SockClosed ==
  /\ readyState \in {"CONNECTING", "CLOSING"}
  /\ readyState' = "CLOSED"
  /\ UNCHANGED <<last_json, listeners, jsonListeners, inflight, arrived,
                 merged, delivered, forwards, last, escaped, dropped, wire, calls, lvars, mvars, pvars, hvars>>

\* listen(key, listener)
listen(l) ==
  /\ Len(listeners) < MaxListeners
  /\ listeners' = Append(listeners, l)
  /\ last' = [op |-> "listen", id |-> 0]
  /\ escaped' = ""
  /\ UNCHANGED <<readyState, last_json, jsonListeners, inflight, arrived,
                 merged, delivered, forwards, dropped, wire, calls, lvars, mvars, pvars, hvars>>

\* listenJson(key, listener)
listenJson(l) ==
  /\ Len(listeners) < MaxListeners
  /\ jsonListeners' = jsonListeners \cup {l}
  /\ listeners' = Append(listeners, l)
  /\ last' = [op |-> "listenJson", id |-> 0]
  /\ escaped' = ""
  /\ UNCHANGED <<readyState, last_json, inflight, arrived,
                 merged, delivered, forwards, dropped, wire, calls, lvars, mvars, pvars, hvars>>

\* The message handler of socks.signals, up to the start of the decode.
OnSignalsBlob(data) ==
  /\ readyState \in {"OPEN", "CLOSING"}
  /\ arrived < MaxFrames
  /\ arrived' = arrived + 1
  /\ inflight' = inflight \cup {[id |-> arrived + 1, data |-> data]}
  /\ last' = [op |-> "blob", id |-> arrived + 1]
  /\ escaped' = ""
  /\ UNCHANGED <<readyState, last_json, listeners, jsonListeners,
                 merged, delivered, forwards, dropped, wire, calls, lvars, mvars, pvars, hvars>>

OnSignalsNonBlobDecoded ==
  /\ readyState \in {"OPEN", "CLOSING"}
  /\ arrived < MaxFrames
  /\ arrived' = arrived + 1
  /\ inflight' = inflight \cup {[id |-> arrived + 1, data |-> Stringify(MsgFull)]}
  /\ last' = [op |-> "nonblob", id |-> arrived + 1]
  /\ escaped' = ""
  /\ UNCHANGED <<readyState, last_json, listeners, jsonListeners,
                 merged, delivered, forwards, dropped, wire, calls, lvars, mvars, pvars, hvars>>

\* A frame that is not a Blob: throw 'unexpected data type'.
OnSignalsNonBlob ==
  /\ readyState \in {"OPEN", "CLOSING"}
  /\ arrived < MaxFrames
  /\ arrived' = arrived + 1
  /\ last' = [op |-> "nonblob", id |-> arrived + 1]
  /\ escaped' = "unexpected data type"
  /\ UNCHANGED <<readyState, last_json, listeners, jsonListeners, inflight,
                 merged, delivered, forwards, dropped, wire, calls, lvars, mvars, pvars, hvars>>

\* The message handler of socks.animation for a frame that is not a Blob:
\* throw 'unexpected data type'.
OnAnimationNonBlob ==
  /\ last' = [op |-> "animation", id |-> 0]
  /\ escaped' = "unexpected data type"
  /\ UNCHANGED <<readyState, last_json, listeners, jsonListeners, inflight, arrived,
                 merged, delivered, forwards, dropped, wire, calls, lvars, mvars, pvars, hvars>>

\* 1000 ms, the least distance of two diagnostics, in clock units
ParseInterval == 2

MayReportAt(t, t0) == t - t0 >= ParseInterval

\* Date.now() - parse_t0 > 1000
MayReport(t, t0) == t - t0 > ParseInterval

\* Time passes between two handlers of the router.
ClockTick ==
  /\ clock < MaxClock
  /\ clock' = clock + 1
  /\ UNCHANGED <<parse_t0, diags, nvars, lvars, mvars, hvars>>

\* The continuation of Response.text(): parse, merge, gate, dispatch.  The
\* pending reads of different frames complete in no guaranteed order.
OnText(f) ==
  /\ f \in inflight
  /\ inflight' = inflight \ {f}
  /\ IF ~ParseOk(f.data)
       THEN /\ last' = [op |-> "badjson", id |-> f.id]
            /\ escaped' = ""
            /\ dropped' = dropped \cup {f.id}
            /\ IF MayReport(clock, parse_t0)
                 THEN /\ diags' = Append(diags, clock)
                      /\ parse_t0' = clock
                 ELSE UNCHANGED <<diags, parse_t0>>
            /\ UNCHANGED <<last_json, merged, delivered, forwards>>
       ELSE LET lj == ObjectAssign(last_json, JSONparse(f.data))
            IN /\ last_json' = lj
               /\ UNCHANGED <<diags, parse_t0>>
               /\ dropped' = dropped
               /\ merged' = Append(merged, [id |-> f.id, msg |-> JSONparse(f.data)])
               /\ IF ~IsFull(lj)
                    THEN /\ last' = [op |-> "held", id |-> f.id]
                         /\ escaped' = ""
                         /\ UNCHANGED <<delivered, forwards>>
                    ELSE /\ last' = [op |-> "forward", id |-> f.id]
                         /\ forwards' = forwards + 1
                         /\ delivered' = delivered \o
                              ForEach(listeners, jsonListeners, lj, f.data, forwards + 1)
                         /\ escaped' =
                              IF ForEachThrows(listeners, jsonListeners, lj, f.data)
                                THEN "TypeError" ELSE ""
  /\ UNCHANGED <<readyState, listeners, jsonListeners, arrived, wire, calls, clock,
                 lvars, mvars, hvars>>

\* sender(d, silent)
sender(d) ==
  /\ Len(calls) < MaxSends
  /\ calls' = Append(calls, [d |-> d, rs |-> readyState])
  /\ IF IsOpen(readyState)
       THEN wire' = Append(wire, [call |-> Len(calls) + 1, text |-> Stringify(d)])
       ELSE wire' = wire
  /\ last' = [op |-> "sender", id |-> Len(calls) + 1]
  /\ escaped' = ""
  /\ UNCHANGED <<readyState, last_json, listeners, jsonListeners, inflight,
                 arrived, merged, delivered, forwards, dropped, lvars, mvars, pvars, hvars>>


\* ------------------------------------------------------------------------
\* Lines: the color bookkeeping.  Three variants of it exist:
\*   "util"     export const Lines of static/util.js (get / set),
\*   "monitor"  function Lines(output, graphs) of static/monitor.js,
\*   "monitor2" the later monitor variant, with clear().
\* Signals are numbered in their name-sort order; color 0 stands for
\* null / undefined, timestamp 0 for a missing t, signal 0 for null.
\* ------------------------------------------------------------------------
Variants == {"util", "monitor", "monitor2"}

NumSigs == PaletteSize + 1

Sigs == 1..NumSigs

\* The signals listed in graphs_no_hidden: those with a checkbox and a label
\* in the monitor variants.  The last signal is hidden but can be selected.
GraphSigs == 1..(NumSigs - 1)

\* const palette = colors.strong_palette / colors.monitor_colors
palette == [i \in 1..PaletteSize |-> i]

\* The presets of the old Monitor: default, none, all.
PresetNames == {"default", "none", "all"}

PresetDefault == {s \in Sigs : s % 2 = 1}

\* The groups of monitor_def.selected.
SelectedGroups == {<<1, 2>>, <<NumSigs, 1>>, <<2, NumSigs>>}

NoLine == [known |-> FALSE, color |-> 0, t |-> 0]

HasLabel(v, sig) == v = "util" \/ sig \in GraphSigs

\* set_color(sig, color)
set_color(v, st, sig, color) ==
  LET st1 == [st EXCEPT !.lines[sig] = [known |-> TRUE, color |-> color, t |-> st.now]]
  IN IF HasLabel(v, sig) THEN [st1 EXCEPT !.checked[sig] = TRUE]
     ELSE IF v = "monitor" THEN [st1 EXCEPT !.err = "TypeError"]
     ELSE st1

remove_color_delete(v, st, sig) ==
  IF st.err # "" \/ sig = 0 THEN st
  ELSE IF ~st.lines[sig].known THEN [st EXCEPT !.err = "TypeError"]
  ELSE IF st.lines[sig].t = 0 THEN st
  ELSE LET st1 == [st EXCEPT !.available = <<st.lines[sig].color>> \o @,
                             !.lines[sig] = NoLine]
       IN IF HasLabel(v, sig) THEN [st1 EXCEPT !.checked[sig] = FALSE]
          ELSE IF v = "monitor" THEN [st1 EXCEPT !.err = "TypeError"]
          ELSE st1

remove_color_push(v, st, sig) ==
  IF st.err # "" \/ sig = 0 THEN st
  ELSE IF v = "util"
    THEN IF st.lines[sig].t = 0 THEN st
         ELSE [st EXCEPT !.lines[sig] = [known |-> TRUE, color |-> 0, t |-> 0],
                         !.available = Append(@, st.lines[sig].color),
                         !.checked[sig] = FALSE]
  ELSE IF ~st.lines[sig].known THEN [st EXCEPT !.err = "TypeError"]
  ELSE IF st.lines[sig].t = 0 THEN st
  ELSE LET st1 == [st EXCEPT !.available = Append(@, st.lines[sig].color),
                             !.lines[sig] = NoLine]
       IN IF HasLabel(v, sig) THEN [st1 EXCEPT !.checked[sig] = FALSE]
          ELSE IF v = "monitor" THEN [st1 EXCEPT !.err = "TypeError"]
          ELSE st1

\* remove_color(sig): available.unshift(lines[sig].color) puts the released
\* color at the front of the queue.
remove_color(v, st, sig) ==
  IF st.err # "" \/ sig = 0 THEN st
  ELSE IF v = "util"
    THEN IF st.lines[sig].t = 0 THEN st
         ELSE [st EXCEPT !.lines[sig] = [known |-> TRUE, color |-> 0, t |-> 0],
                         !.available = <<st.lines[sig].color>> \o @,
                         !.checked[sig] = FALSE]
  ELSE IF ~st.lines[sig].known THEN [st EXCEPT !.err = "TypeError"]
  ELSE IF st.lines[sig].t = 0 THEN st
  ELSE LET st1 == [st EXCEPT !.available = <<st.lines[sig].color>> \o @,
                             !.lines[sig] = NoLine]
       IN IF HasLabel(v, sig) THEN [st1 EXCEPT !.checked[sig] = FALSE]
          ELSE IF v = "monitor" THEN [st1 EXCEPT !.err = "TypeError"]
          ELSE st1

\* The scan for the oldest line: u.sorted(Object.keys(lines)).forEach(...)
RECURSIVE Oldest(_, _, _, _)
Oldest(st, i, min_t, oldest) ==
  IF i > NumSigs THEN oldest
  ELSE IF st.lines[i].known /\ st.lines[i].t # 0 /\ st.lines[i].t < min_t
    THEN Oldest(st, i + 1, st.lines[i].t, i)
    ELSE Oldest(st, i + 1, min_t, oldest)

\* The early return of set_next_color: `lines[sig].t` in util.js,
\* `lines.sig && lines[sig].t` in the monitor variants, where lines.sig is
\* the entry of a signal named "sig" and no signal has that name.
AlreadySet(v, st, sig) == v = "util" /\ st.lines[sig].t # 0

\* set_next_color(sig)
set_next_color(v, st, sig) ==
  IF st.err # "" THEN st
  ELSE IF AlreadySet(v, st, sig) THEN st
  ELSE LET st1 == IF Len(st.available) = 0
                    THEN remove_color(v, st, Oldest(st, 1, st.now, 0))
                    ELSE st
           color == IF Len(st1.available) = 0 THEN 0 ELSE Head(st1.available)
           st2 == [st1 EXCEPT !.available = IF Len(@) = 0 THEN @ ELSE Tail(@)]
       IN IF st1.err # "" THEN st1 ELSE set_color(v, st2, sig, color)

\* The clock may advance between two calls of one handler.
Advance(st, d) == [st EXCEPT !.now = @ + d]

\* sigs.forEach(sig => remove_color(sig)) over the known signals
RECURSIVE RemoveAll(_, _, _)
RemoveAll(v, st, i) ==
  IF i > NumSigs THEN st
  ELSE RemoveAll(v, IF st.lines[i].known THEN remove_color(v, st, i) ELSE st, i + 1)

\* sigs.forEach(sig => { if (preset.has(sig)) set_next_color(sig) })
RECURSIVE AssignPreset(_, _, _, _, _)
AssignPreset(v, st, S, tk, i) ==
  IF i > NumSigs THEN st
  ELSE AssignPreset(v,
         IF st.lines[i].known /\ i \in S
           THEN set_next_color(v, Advance(st, tk[i]), i) ELSE st,
         S, tk, i + 1)

set_keep(v, st, S, tk) == AssignPreset(v, RemoveAll(v, st, 1), S, tk, 1)

\* Lines.set(preset)
set(v, st, S, tk) ==
  AssignPreset(v, [RemoveAll(v, st, 1) EXCEPT !.available = palette], S, tk, 1)

\* Lines.clear(): uncheck and release every checked graph signal, then
\* reset the free queue.
RECURSIVE ClearFrom(_, _, _)
ClearFrom(v, st, i) ==
  IF i > NumSigs THEN st
  ELSE ClearFrom(v,
         IF i \in GraphSigs /\ st.checked[i] /\ st.err = ""
           THEN remove_color(v, [st EXCEPT !.checked[i] = FALSE], i) ELSE st,
         i + 1)

clear(v, st) ==
  LET st1 == ClearFrom(v, st, 1)
  IN IF st1.err # "" THEN st1 ELSE [st1 EXCEPT !.available = palette]

\* group.forEach(lines.set_next_color)
RECURSIVE AssignGroup(_, _, _, _, _)
AssignGroup(v, st, g, tk, i) ==
  IF i > Len(g) THEN st
  ELSE AssignGroup(v, set_next_color(v, Advance(st, tk[i]), g[i]), g, tk, i + 1)

\* get(sig, t, preset) / get_color(sig): the color the graph draws with.
Lookup(ls, sig) == IF ls[sig].known THEN ls[sig].color ELSE 0

\* No handler worth remembering has run last.
NoOp == ""

LinesInit ==
  /\ variant \in Variants
  /\ lines = [s \in Sigs |-> NoLine]
  /\ available = palette
  /\ checked = [s \in Sigs |-> FALSE]
  /\ now = 1
  /\ preset = "default"
  /\ lerr = ""
  /\ lop = NoOp

Cur == [lines |-> lines, available |-> available, checked |-> checked,
        now |-> now, err |-> ""]

\* A handler leaves the state st.  lop remembers it when it was
\*   "recheck": the checkbox of an assigned signal was cleared and set again;
\*   "set":     Lines.set(preset);
\*   "reget":   get on a signal that had a record already.
Becomes(st, op) ==
  /\ lines' = st.lines
  /\ available' = st.available
  /\ checked' = st.checked
  /\ now' = st.now
  /\ lerr' = st.err
  /\ lop' = op
  /\ UNCHANGED <<variant, nvars, mvars, pvars, hvars>>

Ticks(n) == {tk \in [1..n -> {0, 1}] : now + Cardinality({i \in 1..n : tk[i] = 1}) <= MaxTime}

\* Time passes between two handlers.
Tick ==
  /\ now < MaxTime
  /\ now' = now + 1
  /\ UNCHANGED <<variant, lines, available, checked, preset, lerr, lop, nvars, mvars,
                 pvars, hvars>>

\* util.js get(sig, t, preset), called by Monitor.listener for a signal of
\* the snapshot: the first call creates the record and, when the signal is
\* in the current preset, colors it.
get(sig) ==
  /\ variant = "util"
  /\ LET st1 == IF lines[sig].known THEN Cur
                ELSE [Cur EXCEPT !.lines[sig] = [known |-> TRUE, color |-> 0, t |-> 0]]
         inPreset == \/ preset = "all"
                     \/ preset = "default" /\ sig \in PresetDefault
     IN Becomes(IF ~lines[sig].known /\ inPreset
                  THEN set_next_color(variant, st1, sig) ELSE st1,
                IF lines[sig].known
                  THEN "reget"
                  ELSE NoOp)
  /\ UNCHANGED preset

\* The change listener of a signal's checkbox, after the user's click has
\* flipped the box.
CheckboxChange(sig) ==
  /\ IF variant = "util" THEN lines[sig].known ELSE sig \in GraphSigs
  /\ LET st1 == [Cur EXCEPT !.checked[sig] = ~checked[sig]]
     IN Becomes(IF st1.checked[sig]
                  THEN set_next_color(variant, st1, sig)
                  ELSE remove_color(variant, st1, sig),
                NoOp)
  /\ UNCHANGED preset

\* Two clicks on the checkbox of an assigned signal, one right after the
\* other: the listener runs remove_color(sig) and then set_next_color(sig).
Retoggle(sig) ==
  /\ IF variant = "util" THEN lines[sig].known ELSE sig \in GraphSigs
  /\ checked[sig]
  /\ lines[sig].known
  /\ lines[sig].t # 0
  /\ \E d \in {0, 1} :
       /\ now + d <= MaxTime
       /\ LET st1 == remove_color(variant, [Cur EXCEPT !.checked[sig] = FALSE], sig)
              st2 == [Advance(st1, d) EXCEPT !.checked[sig] = TRUE, !.err = ""]
          IN Becomes(set_next_color(variant, st2, sig),
                     "recheck")
  /\ UNCHANGED preset

\* presets[p]; presets.all holds every signal the listener has seen.
PresetSigs(p) ==
  CASE p = "all" -> {s \in Sigs : lines[s].known}
    [] p = "default" -> PresetDefault
    [] OTHER -> {}

\* The change listener of the preset select of the old Monitor:
\* preset = presets[...]; lines.set(preset)
PresetChange(p) ==
  /\ variant = "util"
  /\ preset' = p
  /\ \E tk \in Ticks(NumSigs) :
       Becomes(set(variant, Cur,
                   PresetSigs(p), tk),
               "set")

\* lines.set_next_color(sig) called by the Monitor for a pre-selected signal.
SetNextColor(sig) ==
  /\ variant # "util"
  /\ Becomes(set_next_color(variant, Cur, sig), NoOp)
  /\ UNCHANGED preset

\* The change handler of the selected-group choice:
\* lines.clear(); monitor_def.selected[selected].forEach(lines.set_next_color)
SelectedChange(g) ==
  /\ variant = "monitor2"
  /\ \E tk \in Ticks(Len(g)) :
       Becomes(AssignGroup(variant, clear(variant, Cur), g, tk, 1), NoOp)
  /\ UNCHANGED preset

LinesNext ==
  \/ Tick
  \/ \E sig \in Sigs : get(sig)
  \/ \E sig \in Sigs : CheckboxChange(sig)
  \/ \E sig \in Sigs : Retoggle(sig)
  \/ \E p \in PresetNames : PresetChange(p)
  \/ \E sig \in Sigs : SetNextColor(sig)
  \/ \E g \in SelectedGroups : SelectedChange(g)

\* ------------------------------------------------------------------------
\* Monitor.listener: one tick of the scrolling graph.  The old Monitor of
\* monitor.js draws with the Lines of util.js (variant "util"), the Monitor
\* built from a monitor_def with the Lines of monitor.js ("monitor"), the
\* later Monitor with selected groups with its own Lines ("monitor2").
\* Numbers of a snapshot are multiples of 1/4 and are held as their count of
\* quarters, so that every product and quotient below is exact, as it is
\* for these numbers in floating point.
\* ------------------------------------------------------------------------
height == 128

lw == 1

\* signals.state, a text in segments: indexOf('frozen') finds the segment.
StateTexts == {<<"std">>, <<"frozen">>, <<"std", "frozen">>}

\* signals[sig]: -0.5, 0.5, 1.5
SigVals == {-2, 2, 6}

\* signals.logmel: [-5, 0, 5], [-7, 7], [-1.5, 2.5]
LogmelVecs == {<<-20, 0, 20>>, <<-28, 28>>, <<-6, 10>>}

\* The snapshots a tick may bring: the first k signals with one value, two
\* signals with two values, a spectrogram vector next to one signal, or a
\* frozen state next to either.
WellFormed ==
  {[state |-> <<"std">>, logmel |-> <<>>, vals |-> [i \in 1..k |-> x]] :
     k \in 0..NumSigs, x \in SigVals}
  \cup {[state |-> <<"std">>, logmel |-> <<>>,
          vals |-> [i \in 1..2 |-> IF i = 1 THEN x ELSE 2]] : x \in SigVals}
  \cup {[state |-> <<"std">>, logmel |-> m, vals |-> [i \in 1..1 |-> 2]] :
          m \in LogmelVecs}
  \cup {[state |-> s, logmel |-> <<>>, vals |-> [i \in 1..NumSigs |-> 3]] :
          s \in StateTexts}
  \cup {[state |-> s, logmel |-> <<0>>, vals |-> << >>] : s \in StateTexts}

\* The names no group of monitor_def declares, numbered after the declared
\* ones in name-sort order.
UndeclaredSigs == {NumSigs + 1, NumSigs + 2}

\* The snapshots the router forwards.  extra holds the undeclared names of
\* the snapshot; bad tells what is wrong with it: "state" for a snapshot
\* without a state field, "logmel" for one whose logmel is not an array.
Snapshots ==
  {s @@ [extra |-> {}, bad |-> ""] : s \in WellFormed}
  \cup {[state |-> s, logmel |-> <<>>, vals |-> [i \in 1..1 |-> 2],
          extra |-> {NumSigs + 1}, bad |-> ""] : s \in {<<"std">>, <<"frozen">>}}
  \cup {[state |-> <<"std">>, logmel |-> <<>>, vals |-> << >>,
          extra |-> UndeclaredSigs, bad |-> ""]}
  \cup {[state |-> IF b = "state" THEN <<>> ELSE <<"std">>, logmel |-> <<>>,
          vals |-> [i \in 1..NumSigs |-> 2], extra |-> {}, bad |-> b] :
            b \in {"state", "logmel"}}

\* signals.state.indexOf('frozen') !== -1
Frozen(state) == \E i \in 1..Len(state) : state[i] = "frozen"

NormalizeRaw(x) == x + 20

\* value = (value + 5) / 10; value = Math.min(1, Math.max(0, value))
\* as the count of 40ths of the result.
Normalize(x) ==
  LET n == x + 20 IN IF n < 0 THEN 0 ELSE IF n > 40 THEN 40 ELSE n

\* Math.floor(255 * value) for value = n/40
GreenIndex(n) == (255 * n) \div 40

\* colors.greens[i]: 256 entries '#00' + hex2[i] + '00', named here by the
\* green level; -1 for undefined.
greens(i) == IF i \in 0..255 THEN i ELSE -1

\* signals.logmel.forEach((value, i) => ...): the cells painted.
PaintLogmel(vec) ==
  [i \in 1..Len(vec) |->
     [v |-> vec[i], value |-> Normalize(vec[i]),
      index |-> GreenIndex(Normalize(vec[i])),
      fill |-> greens(GreenIndex(Normalize(vec[i])))]]

PlotRowFull(x) == (height * (4 - x)) \div 4

\* Math.floor((height - 1) * (1 - signals[sig])), height - lw in the later
\* Monitor
PlotRow(x) == ((height - lw) * (4 - x)) \div 4

DrawsAlways(color) == TRUE

\* if (color): only a signal that holds a color is drawn.
HasColor(color) == color # 0

\* while (ys.has(y)) y += lw, or y -= lw
RECURSIVE FreeRow(_, _, _)
FreeRow(y, ys, d) == IF y \in ys THEN FreeRow(y + d, ys, d) ELSE y

\* util.js get(sig, t, preset) as the old Monitor's tick calls it, on the
\* Lines state st.
lines_get(st, sig, p) ==
  IF st.lines[sig].known THEN st
  ELSE LET st1 == [st EXCEPT !.lines[sig] = [known |-> TRUE, color |-> 0, t |-> 0]]
       IN IF p = "all" \/ (p = "default" /\ sig \in PresetDefault)
            THEN set_next_color("util", st1, sig) ELSE st1

\* u.sorted(Object.keys(signals)).forEach(sig => ...) over the plotted
\* signals: look the color up and, if there is one, draw the row and
\* remember it.  acc holds the Lines state, lastys, the rows drawn and the
\* rows taken in this tick.
RECURSIVE Plot(_, _, _, _, _)
Plot(v, snap, p, acc, i) ==
  IF i > NumSigs THEN acc
  ELSE IF i \notin DOMAIN snap.vals THEN Plot(v, snap, p, acc, i + 1)
  ELSE
    LET st1 == IF v = "util" THEN lines_get(acc.st, i, p) ELSE acc.st
        color == Lookup(st1.lines, i)
        y0 == PlotRow(snap.vals[i])
        y == IF v = "monitor2"
               THEN FreeRow(y0, acc.ys, IF 2 * y0 < height THEN lw ELSE 0 - lw)
               ELSE y0
    IN Plot(v, snap, p,
            IF ~HasColor(color) THEN [acc EXCEPT !.st = st1]
            ELSE [st |-> st1,
                  lastys |-> [s \in (DOMAIN acc.lastys) \cup {i} |->
                                IF s = i THEN y ELSE acc.lastys[s]],
                  rows |-> acc.rows \cup
                             {[sig |-> i, v |-> snap.vals[i], y |-> y, color |-> color]},
                  ys |-> IF v = "monitor2" THEN acc.ys \cup {y} ELSE acc.ys],
            i + 1)

MonitorInit ==
  /\ signals = <<>>
  /\ lastys = << >>
  /\ canvas = [shift |-> 0, spectro |-> <<>>, rows |-> {}]
  /\ text = [el |-> "", content |-> <<>>]
  /\ logmel_on = FALSE
  /\ unknown = <<>>
  /\ merr = ""

\* The constructor of a Monitor built from a monitor_def pre-selects the
\* signals of a group: selected.forEach(lines.set_next_color)
Preselect(g) ==
  /\ variant # "util"
  /\ signals = <<>>
  /\ \A s \in Sigs : ~lines[s].known
  /\ Becomes(AssignGroup(variant, Cur, g, [i \in 1..Len(g) |-> 0], 1), NoOp)
  /\ UNCHANGED preset

\* A click on the logmel toggle of the later Monitor.
ToggleLogmel ==
  /\ variant = "monitor2"
  /\ logmel_on' = ~logmel_on
  /\ UNCHANGED <<signals, lastys, canvas, text, unknown, merr, lvars, nvars,
                 pvars, hvars>>

\* !unknown.has(sig)
NotYetFlagged(unk, s) == \A k \in 1..Len(unk) : unk[k] # s

\* The last step of the per-signal loop of the later Monitors, for the
\* names of extra from name i on: a name that is not known and not yet in
\* unknown is appended to the unknown-signal area and added to unknown.
RECURSIVE FlagUnknown(_, _, _)
FlagUnknown(unk, extra, i) ==
  IF i > NumSigs + 2 THEN unk
  ELSE FlagUnknown(IF i \in extra /\ NotYetFlagged(unk, i) THEN Append(unk, i) ELSE unk,
                   extra, i + 1)

\* listener(data): one tick.  The old Monitor declares no groups and has no
\* unknown-signal area; every name it sees is one of Sigs.
Listener(snap) ==
  /\ variant = "util" => snap.extra = {}
  /\ signals' = <<snap>>
  /\ IF variant # "monitor2" /\ snap.bad = "state"
       THEN \* signals.state is undefined: signals.state.indexOf throws
            /\ merr' = "TypeError"
            /\ UNCHANGED <<text, canvas, lastys, unknown, lines, available, checked>>
       ELSE IF variant # "monitor2" /\ Frozen(snap.state)
       THEN /\ IF variant = "util"
                 THEN /\ text' = [el |-> "text_sigs", content |-> snap.state]
                      /\ merr' = ""
                 ELSE /\ text' = text
                      /\ merr' = "TypeError"
            /\ UNCHANGED <<canvas, lastys, unknown, lines, available, checked>>
       ELSE IF snap.bad = "logmel" /\ (variant = "monitor2" => logmel_on)
       THEN \* signals.logmel.forEach is not a function, after the shift
            /\ canvas' = [shift |-> 1 - canvas.shift, spectro |-> <<>>, rows |-> {}]
            /\ merr' = "TypeError"
            /\ UNCHANGED <<text, lastys, unknown, lines, available, checked>>
       ELSE LET acc == Plot(variant, snap, preset,
                            [st |-> Cur, lastys |-> lastys, rows |-> {}, ys |-> {}], 1)
            IN /\ canvas' = [shift |-> 1 - canvas.shift,
                             spectro |-> IF variant = "monitor2" /\ ~logmel_on
                                           THEN <<>> ELSE PaintLogmel(snap.logmel),
                             rows |-> acc.rows]
               /\ lastys' = acc.lastys
               /\ text' = CASE variant = "util" ->
                                [el |-> "text_sigs", content |-> <<"state=">> \o snap.state]
                             [] variant = "monitor" ->
                                [el |-> "state", content |-> snap.state]
                             [] snap.bad = "state" -> text
                             [] OTHER ->
                                [el |-> "feature_state", content |-> snap.state]
               /\ unknown' = IF variant = "util" THEN unknown
                             ELSE FlagUnknown(unknown, snap.extra, NumSigs + 1)
               /\ merr' = ""
               /\ lines' = acc.st.lines
               /\ available' = acc.st.available
               /\ checked' = acc.st.checked
  /\ UNCHANGED <<variant, now, preset, lerr, lop, logmel_on, nvars, pvars, hvars>>

MonitorNext ==
  \/ \E g \in SelectedGroups : Preselect(g)
  \/ ToggleLogmel
  \/ \E snap \in Snapshots : Listener(snap)

\* ------------------------------------------------------------------------
\* observe(target).start(cb).stop(cb) and its consumer, the Dump panel:
\*   let running = true
\*   observe(els.cont).start(() => running=true).stop(() => running=false)
\* Both callbacks are registered before the first event is delivered.
\* ------------------------------------------------------------------------
\* The snapshots the router forwards to Dump's listener.
DumpData == {1, 2}

\* The callback of the IntersectionObserver for one entry of the target;
\* an entry is delivered when the region starts or stops intersecting.
IntersectionEntry(b) ==
  /\ region # b
  /\ region' = b
  /\ IF b = "in"
       THEN /\ intersecting' = TRUE
            /\ running' = TRUE
       ELSE /\ intersecting' = FALSE
            /\ running' = FALSE
  /\ UNCHANGED <<visibility, dsignals, shown, live, output,
                 nvars, lvars, mvars, pvars, cvars, dvars>>

\* The visibilitychange listener of the document: it goes through the
\* targets of intersecting only.
VisibilityChange ==
  /\ visibility' = IF visibility = "visible" THEN "hidden" ELSE "visible"
  /\ running' = IF intersecting THEN visibility' = "visible" ELSE running
  /\ UNCHANGED <<region, intersecting, dsignals, shown, live, output,
                 nvars, lvars, mvars, pvars, cvars, dvars>>

\* els.dump.change: shown = value, then update()
DumpClick ==
  /\ shown' = ~shown
  /\ output' = IF shown' /\ dsignals # 0 THEN dsignals ELSE 0
  /\ UNCHANGED <<visibility, region, intersecting, running, dsignals, live,
                 nvars, lvars, mvars, pvars, cvars, dvars>>

\* els.live.change: live = value; the button is hidden unless shown
LiveClick ==
  /\ shown
  /\ live' = ~live
  /\ UNCHANGED <<visibility, region, intersecting, running, dsignals, shown, output,
                 nvars, lvars, mvars, pvars, cvars, dvars>>

\* Dump's listener: signals = data; if (shown && live && running) update()
DumpListener(data) ==
  /\ dsignals' = data
  /\ output' = IF shown /\ live /\ running THEN data ELSE output
  /\ UNCHANGED <<visibility, region, intersecting, running, shown, live,
                 nvars, lvars, mvars, pvars, cvars, dvars>>

ObserveNext ==
  \/ \E b \in {"in", "out"} : IntersectionEntry(b)
  \/ VisibilityChange
  \/ DumpClick
  \/ LiveClick
  \/ \E data \in DumpData : DumpListener(data)

\* ------------------------------------------------------------------------
\* Console: wrap(which) mirrors each call into disp.console, clear()
\* empties it.  The loop of clear is modelled one iteration per step.
\* ------------------------------------------------------------------------
Whiches == {"log", "warn", "error"}

\* wrapper(): disp.console.insertBefore(el, disp.console.firstChild)
wrapper(which) ==
  /\ cpc = "idle"
  /\ Len(entries) < MaxEntries
  /\ entries' = <<which>> \o entries
  /\ UNCHANGED <<console_src, attached, cleared, cpc,
                 nvars, lvars, mvars, pvars, ovars, dvars>>

\* clear() is called.
ClearCall ==
  /\ cpc = "idle"
  /\ cleared < MaxClears
  /\ cpc' = "loop"
  /\ UNCHANGED <<console_src, entries, attached, cleared,
                 nvars, lvars, mvars, pvars, ovars, dvars>>

\* One iteration of while (disp.console.firstChild).  u.empty of part_001
\* calls el.removeChild(el.firstChild).  util.js calls
\* disp.console.remove(disp.console.firstChild): Element.remove() takes no
\* argument and removes disp.console itself from its parent; its children
\* stay.
LoopBody(src, es, att) ==
  IF src = "util.js" THEN [entries |-> es, attached |-> FALSE]
  ELSE [entries |-> Tail(es), attached |-> att]

ClearStep ==
  /\ cpc = "loop"
  /\ entries # <<>>
  /\ entries' = LoopBody(console_src, entries, attached).entries
  /\ attached' = LoopBody(console_src, entries, attached).attached
  /\ UNCHANGED <<console_src, cleared, cpc,
                 nvars, lvars, mvars, pvars, ovars, dvars>>

\* The loop ends when disp.console has no child: console.clear()
ClearReturn ==
  /\ cpc = "loop"
  /\ entries = <<>>
  /\ cleared' = cleared + 1
  /\ cpc' = "idle"
  /\ UNCHANGED <<console_src, entries, attached,
                 nvars, lvars, mvars, pvars, ovars, dvars>>

ConsoleNext ==
  \/ \E which \in Whiches : wrapper(which)
  \/ ClearCall
  \/ ClearStep
  \/ ClearReturn

\* ------------------------------------------------------------------------
\* debounce(fun, ms), for one fun.  A timer fires when its time is up, the
\* earlier one first.
\* ------------------------------------------------------------------------
DebounceMs == {1, 2}

\* The body of debounce on the timers ts and the map entry deb:
\*   const id = setTimeout(handler, ms)
\*   if (debounced.has(fun)) clearTimeout(debounced.get(fun))
\*   debounced.set(fun, id)
Debounce(ts, deb, id, ms) ==
  [timers |-> {t \in ts : t.id # deb} \cup {[id |-> id, ms |-> ms, left |-> ms]},
   debounced |-> id]

\* debounce(fun, ms), called from outside fun
debounce(ms) ==
  /\ next_id <= MaxCalls
  /\ timers' = Debounce(timers, debounced, next_id, ms).timers
  /\ debounced' = Debounce(timers, debounced, next_id, ms).debounced
  /\ next_id' = next_id + 1
  /\ burst' = 0
  /\ UNCHANGED <<runs, nvars, lvars, mvars, pvars, ovars, cvars>>

\* Time passes: no timer is due.
Elapse ==
  /\ timers # {}
  /\ \A t \in timers : t.left > 0
  /\ timers' = {[t EXCEPT !.left = @ - 1] : t \in timers}
  /\ burst' = burst + 1
  /\ UNCHANGED <<debounced, next_id, runs, nvars, lvars, mvars, pvars, ovars, cvars>>

\* handler(): fun(), then debounced.delete(fun).  fun itself may call
\* debounce(fun, ms): again says so.
handler(t) ==
  /\ t \in timers
  /\ t.left = 0
  /\ \A r \in timers : r.left = 0 => t.id <= r.id
  /\ runs' = runs + 1
  /\ \E again \in BOOLEAN, ms \in DebounceMs :
       IF again /\ next_id <= MaxCalls
         THEN /\ timers' = Debounce(timers \ {t}, debounced, next_id, ms).timers
              /\ next_id' = next_id + 1
              /\ burst' = 0
         ELSE /\ timers' = timers \ {t}
              /\ UNCHANGED <<next_id, burst>>
  /\ debounced' = 0
  /\ UNCHANGED <<nvars, lvars, mvars, pvars, ovars, cvars>>

DebounceNext ==
  \/ \E ms \in DebounceMs : debounce(ms)
  \/ Elapse
  \/ \E t \in timers : handler(t)

vars == <<nvars, lvars, mvars, pvars, hvars>>

Init ==
  /\ NetInit /\ LinesInit /\ MonitorInit
  /\ ParseInit /\ ObserveInit /\ ConsoleInit /\ DebounceInit

\* The network with an idle Lines next to it.
RouterInit == Init /\ variant = "util" /\ console_src = "util.js"

\* The signal router: registration, frames, decode, merge and dispatch.
Next ==
  \/ SockOpen
  \/ \E l \in ListenerIds : listen(l)
  \/ \E l \in ListenerIds : listenJson(l)
  \/ \E data \in Texts : OnSignalsBlob(data)
  \/ OnSignalsNonBlob
  \/ OnAnimationNonBlob
  \/ \E f \in inflight : OnText(f)

Spec == RouterInit /\ [][Next]_vars

\* The outbound side: the socket's life cycle and sender.
SenderNext ==
  \/ SockOpen
  \/ SockClosing
  \/ SockClosed
  \/ \E d \in ControlMsgs : sender(d)

SenderSpec == RouterInit /\ [][SenderNext]_vars

\* Any Lines variant, with the helpers of util.js idle next to it.
LinesStart == Init /\ console_src = "util.js"

\* The color bookkeeping on its own.
LinesSpec == LinesStart /\ [][LinesNext]_vars

\* The graph: construction and ticks.
MonitorSpec == LinesStart /\ [][MonitorNext]_vars

\* Malformed and well-formed frames arriving while time passes.
ParseNext ==
  \/ SockOpen
  \/ \E data \in {BadText, Stringify(MsgFull)} : OnSignalsBlob(data)
  \/ \E f \in inflight : OnText(f)
  \/ ClockTick

ParseSpec == RouterInit /\ [][ParseNext]_vars

\* Either Console, with an idle Lines next to it.
ConsoleStart == Init /\ variant = "util"

\* Console: a loop that is entered runs on, and a loop that is left returns.
ConsoleSpec ==
  /\ ConsoleStart
  /\ [][ConsoleNext]_vars
  /\ WF_vars(ClearStep)
  /\ WF_vars(ClearReturn)

\* debounce and its timers.
DebounceSpec == RouterInit /\ [][DebounceNext]_vars

\* The Dump panel under intersection and visibility events.
ObserveSpec == RouterInit /\ [][ObserveNext]_vars

\* ------------------------------------------------------------------------
\* Properties of the signal router.
\* ------------------------------------------------------------------------
\* A message carries the completeness marker.
CarriesMarker(m) == "_full" \in DOMAIN m /\ (\E p \in m["_full"] : p[2] # 0)

MarkerSeen == \E i \in 1..Len(merged) : CarriesMarker(merged[i].msg)

\* The key-wise union of a log of messages, the last message that has a key
\* giving its value.
LastWriter(log, k) ==
  CHOOSE i \in 1..Len(log) :
    /\ k \in DOMAIN log[i].msg
    /\ \A j \in (i + 1)..Len(log) : k \notin DOMAIN log[j].msg

UnionLWW(log) ==
  [k \in UNION {DOMAIN log[i].msg : i \in 1..Len(log)} |->
     log[LastWriter(log, k)].msg[k]]

\* The step is the continuation of the decode of some frame.
TextStep == inflight' # inflight /\ arrived' = arrived

ForwardStep == forwards' = forwards + 1

NewCalls == (Len(delivered) + 1)..Len(delivered')

\* C1: no listener is invoked before some merged message has carried the
\* completeness marker; until then the messages only accumulate in the
\* retained baseline.
C1_NoDispatchBeforeMarker ==
  ~MarkerSeen => /\ delivered = <<>>
                 /\ forwards = 0
                 /\ last_json = UnionLWW(merged)

C1_Witness ==
  /\ Len(merged) >= 2
  /\ ~MarkerSeen
  /\ Len(listeners) >= 1
  /\ delivered = <<>>
  /\ DOMAIN last_json # {}

\* C2: once a message carrying the completeness marker has been merged,
\* every later well-formed message, whatever it carries, is forwarded.
C2_EveryLaterMessageForwarded ==
  [][(TextStep /\ MarkerSeen /\ Len(merged') = Len(merged) + 1) => ForwardStep]_vars

C4_EveryListenerGetsSnapshot ==
  \A i \in 1..Len(delivered) : delivered[i].payload.json

\* C4 amended: a listener in jsonListeners receives the merged snapshot, any
\* other listener receives the text of the frame just decoded.
C4_PayloadByRegistration ==
  [][ForwardStep =>
       \A i \in NewCalls :
         IF delivered'[i].listener \in jsonListeners
           THEN /\ delivered'[i].payload.json
                /\ delivered'[i].payload.val = last_json'
           ELSE /\ ~delivered'[i].payload.json
                /\ delivered'[i].payload.val = merged'[Len(merged')].msg]_vars

C4_Witness ==
  /\ Len(merged) >= 2
  /\ \E i, j \in 1..Len(delivered) :
       /\ delivered[i].fwd = delivered[j].fwd
       /\ delivered[i].payload.json
       /\ ~delivered[j].payload.json
       /\ delivered[i].payload.val # delivered[j].payload.val

\* C5: a frame whose text is not JSON changes nothing: no merge, no
\* listener call, no exception.
C5_BadJsonSkipped ==
  [][(\E f \in inflight : f \notin inflight' /\ ~f.data.ok) =>
       /\ last_json' = last_json
       /\ merged' = merged
       /\ delivered' = delivered
       /\ forwards' = forwards
       /\ escaped' = ""]_vars

\* A malformed frame was dropped after the marker, and a later valid frame
\* has been merged and dispatched.
C5_Witness ==
  /\ dropped # {}
  /\ last.op = "forward"
  /\ \A d \in dropped : d < last.id
  /\ Len(delivered) >= 2
  /\ escaped = ""

\* C6: each forward invokes every registered listener exactly once, in
\* registration order.
C6_EveryListenerOnceInOrder ==
  [][ForwardStep =>
       /\ Len(delivered') = Len(delivered) + Len(listeners)
       /\ \A i \in 1..Len(listeners) :
            /\ delivered'[Len(delivered) + i].listener = listeners[i]
            /\ delivered'[Len(delivered) + i].idx = i]_vars

\* C7: a sender call is transmitted if and only if the socket was OPEN at
\* the call; a dropped message never reaches the wire.
C7_SentIffOpen ==
  /\ \A n \in 1..Len(calls) :
       (\E i \in 1..Len(wire) : wire[i].call = n) <=> calls[n].rs = "OPEN"
  /\ \A i \in 1..Len(wire) :
       /\ wire[i].text = [ok |-> TRUE, obj |-> calls[wire[i].call].d]
       /\ \A j \in 1..Len(wire) : i < j => wire[i].call < wire[j].call

C7_Witness ==
  /\ Len(calls) = 2
  /\ calls[1].rs = "CONNECTING"
  /\ calls[2].rs = "OPEN"
  /\ Len(wire) = 1
  /\ wire[1].call = 2

\* C8: frames are merged and dispatched in arrival order.
C8_MergedInArrivalOrder ==
  \A i, j \in 1..Len(merged) : i < j => merged[i].id < merged[j].id

\* ------------------------------------------------------------------------
\* Properties of Lines.
\* ------------------------------------------------------------------------
\* The signal is in the assigned set: it has an assignment timestamp.
Assigned(s) == lines[s].known /\ lines[s].t # 0

\* The color lookup returns a color for the signal.
HoldsColor(s) == Lookup(lines, s) # 0

HeldColors == {lines[s].color : s \in {r \in Sigs : HoldsColor(r)}}

FreeColors == {available[i] : i \in 1..Len(available)}

\* C9: at most N signals hold a color, and the lookup returns a color for a
\* name exactly when the name is in the assigned set.
C9_AtMostNAndLookupIffAssigned ==
  /\ Cardinality({s \in Sigs : HoldsColor(s)}) <= PaletteSize
  /\ \A s \in Sigs : HoldsColor(s) <=> Assigned(s)

\* C10: the free queue holds exactly the palette colors no signal holds: no
\* color is free and assigned, held twice, twice in the queue, or lost.
C10_FreeQueueIsComplement ==
  /\ \A i, j \in 1..Len(available) : i # j => available[i] # available[j]
  /\ \A s, r \in Sigs : (s # r /\ HoldsColor(s) /\ HoldsColor(r)) =>
                          lines[s].color # lines[r].color
  /\ FreeColors \cap HeldColors = {}
  /\ FreeColors \cup HeldColors = 1..PaletteSize

\* The step runs set_next_color(sig) once, as a whole handler: the
\* programmatic call, the checking of the signal's box, or the first get of
\* a signal of the current preset.
RunsSetNextColor(sig) ==
  \/ SetNextColor(sig)
  \/ CheckboxChange(sig) /\ ~checked[sig]
  \/ /\ get(sig)
     /\ ~lines[sig].known
     /\ (preset = "all" \/ (preset = "default" /\ sig \in PresetDefault))

AssignedSigs == {s \in Sigs : Assigned(s)}

\* The least recently assigned signal, the first in name order among equals.
LeastRecent ==
  CHOOSE s \in AssignedSigs :
    \A r \in AssignedSigs :
      lines[s].t < lines[r].t \/ (lines[s].t = lines[r].t /\ s <= r)

\* C11: set_next_color(name) with an empty free queue evicts the assigned
\* signal with the smallest timestamp, the first in name order among equals,
\* and gives its color to name.
C11_EvictsLeastRecent ==
  [][\A sig \in Sigs :
       (/\ variant \in {"util", "monitor2"}
        /\ RunsSetNextColor(sig)
        /\ available = <<>>
        /\ AssignedSigs # {}
        /\ ~Assigned(sig)) =>
          /\ ~(lines'[LeastRecent].known /\ lines'[LeastRecent].t # 0)
          /\ lines'[sig].color = lines[LeastRecent].color
          /\ lines'[sig].color # 0]_vars

\* C12: in every variant set_next_color(name) on a name that holds a color
\* changes nothing: name keeps color and timestamp, the free queue stays and
\* nobody is evicted.
C12_AssignedNameIsNoOp ==
  [][\A sig \in Sigs :
       (RunsSetNextColor(sig) /\ Assigned(sig) /\ HoldsColor(sig)) =>
          UNCHANGED <<lines, available>>]_vars

\* C13: remove_color(name) followed at once by set_next_color(name) gives
\* name the color it has just released.
C13_ReleasedColorComesBack ==
  [][\A sig \in Sigs :
       (lop' = "recheck" /\ Retoggle(sig)) =>
          /\ lines'[sig].known
          /\ lines'[sig].t # 0
          /\ lines'[sig].color = lines[sig].color]_vars

\* A name has been released while other colors were free and has been
\* assigned again at once.
C13_Witness ==
  /\ lop = "recheck"
  /\ \E s \in Sigs : HoldsColor(s) /\ checked[s]
  /\ available # <<>>

\* C14: Lines.set(S) called twice in a row leaves the assigned names and
\* the name-to-color mapping of the first call, for every preset.
C14_SetIsIdempotent ==
  [][\A p \in PresetNames :
       (lop = "set" /\ preset = p /\ lop' = "set" /\ PresetChange(p)) =>
          \A s \in Sigs :
            /\ (lines'[s].known /\ lines'[s].t # 0) <=> Assigned(s)
            /\ Lookup(lines', s) = Lookup(lines, s)]_vars

\* The known names of the preset p, and the place of s among them in name
\* order.
KnownIn(p) == {s \in PresetSigs(p) : lines[s].known}

RankIn(p, s) == Cardinality({r \in KnownIn(p) : r <= s})

\* C15: after Lines.set(S) with at most N known names in S, exactly those
\* names are assigned, the i-th of them in name order holds the i-th palette
\* color and the free queue is the rest of the palette in its order.
C15_SetAssignsInNameOrder ==
  [][\A p \in PresetNames :
       (/\ Cardinality(KnownIn(p)) <= PaletteSize
        /\ lop' = "set"
        /\ PresetChange(p)) =>
          /\ \A s \in Sigs :
               (lines'[s].known /\ lines'[s].t # 0) <=> s \in KnownIn(p)
          /\ \A s \in KnownIn(p) : lines'[s].color = palette[RankIn(p, s)]
          /\ available' = SubSeq(palette, Cardinality(KnownIn(p)) + 1, PaletteSize)]_vars

\* Lines.set has assigned two or more names, passing over a known name
\* that lies between them.
C15_Witness ==
  /\ lop = "set"
  /\ Cardinality(AssignedSigs) >= 2
  /\ Cardinality(AssignedSigs) <= PaletteSize
  /\ \E s \in Sigs, r \in AssignedSigs :
       s < r /\ lines[s].known /\ ~Assigned(s)

\* The members of a selected group.
Members(g) == {g[i] : i \in 1..Len(g)}

\* C16: after a preset switch or a selected-group switch no signal outside
\* the new preset or group holds a color.
C16_SwitchClearsTheRest ==
  [][/\ \A p \in PresetNames :
          PresetChange(p) =>
            \A s \in Sigs \ PresetSigs(p) : Lookup(lines', s) = 0
     /\ \A g \in SelectedGroups :
          SelectedChange(g) =>
            \A s \in Sigs \ Members(g) : Lookup(lines', s) = 0]_vars

\* C17: in util.js a record once created by get stays in every later state,
\* and get on a known name changes no record, color or checkbox.
C17_RecordStays ==
  [][variant = "util" =>
       /\ \A s \in Sigs : lines[s].known => lines'[s].known
       /\ \A s \in Sigs :
            (lines[s].known /\ lop' = "reget" /\ get(s)) =>
               UNCHANGED <<lines, available, checked>>]_vars

\* get has run on a known name while a known name of the default preset is
\* without a color, having lost it since its creation, and another known
\* name holds one.
C17_Witness ==
  /\ variant = "util"
  /\ lop = "reget"
  /\ \E s \in PresetDefault : lines[s].known /\ ~Assigned(s)
  /\ \E s \in Sigs : HoldsColor(s)

\* C18: in the Monitors of monitor.js a tick whose state text contains
\* 'frozen' shows that text and does nothing else: no shift, no painting, no
\* change of a lastY; the snapshot is retained.
C18_FrozenTickOnlyShowsState ==
  [][\A snap \in Snapshots :
       (variant # "monitor2" /\ Listener(snap) /\ Frozen(snap.state)) =>
          /\ text'.content = snap.state
          /\ merr' = ""
          /\ UNCHANGED <<canvas, lastys>>
          /\ signals' = <<snap>>]_vars

\* clamp01 of a number of quarters.
Clamp01(x) == IF x < 0 THEN 0 ELSE IF x > 4 THEN 4 ELSE x

C20_LogmelNormalized ==
  /\ \A i \in 1..Len(canvas.spectro) :
       LET c == canvas.spectro[i]
           n == IF c.v + 20 < 0 THEN 0 ELSE IF c.v + 20 > 40 THEN 40 ELSE c.v + 20
       IN /\ c.value = n
          /\ c.index = (255 * n) \div 40
          /\ c.index \in 0..255
          /\ c.fill = c.index
  /\ [i \in 1..Len(canvas.spectro) |-> canvas.spectro[i].v] = <<-20, 0, 20>> =>
       [i \in 1..Len(canvas.spectro) |-> canvas.spectro[i].value] = <<0, 20, 40>>

\* The vector [-5, 0, 5] has been painted.
C20_Witness ==
  /\ Len(canvas.spectro) = 3
  /\ [i \in 1..3 |-> canvas.spectro[i].v] = <<-20, 0, 20>>
  /\ [i \in 1..3 |-> canvas.spectro[i].index] = <<0, 127, 255>>

\* The signals of a snapshot that hold no color when the tick reaches them:
\* the old Monitor's lines.get assigns one to a name it has not seen before
\* and the preset selects, the later Monitors only look the color up.
Uncolored(snap) ==
  {s \in DOMAIN snap.vals :
     IF variant = "util"
       THEN IF lines[s].known THEN lines[s].color = 0
            ELSE ~(preset = "all" \/ (preset = "default" /\ s \in PresetDefault))
       ELSE Lookup(lines, s) = 0}

DrawnSigs(rows) == {r.sig : r \in rows}

LastY(ys, s) == IF s \in DOMAIN ys THEN <<ys[s]>> ELSE <<>>

\* C21: a signal of a forwarded snapshot that holds no color is not drawn
\* in that tick and keeps its lastY, its value stays in the retained
\* snapshot, and the lastY of a signal changes only in a tick that draws
\* that signal.
C21_UncoloredIsSkipped ==
  [][/\ \A snap \in Snapshots : signals' = <<snap>> /\ merr' = "" /\ Listener(snap) =>
          \A s \in Uncolored(snap) :
            /\ s \notin DrawnSigs(canvas'.rows)
            /\ LastY(lastys', s) = LastY(lastys, s)
            /\ signals' = <<snap>> /\ s \in DOMAIN signals'[1].vals
     /\ \A s \in Sigs :
          LastY(lastys', s) # LastY(lastys, s) =>
            /\ s \in DrawnSigs(canvas'.rows)
            /\ \E snap \in Snapshots : signals' = <<snap>> /\ Listener(snap)]_vars

\* A tick drew one signal and skipped another one, which holds no color and
\* has no lastY, while its value is in the retained snapshot.
C21_Witness ==
  /\ signals # <<>>
  /\ merr = ""
  /\ canvas.rows # {}
  /\ \E s \in DOMAIN signals[1].vals :
       /\ Lookup(lines, s) = 0
       /\ s \notin DrawnSigs(canvas.rows)
       /\ s \notin DOMAIN lastys

\* C22: a malformed snapshot (no state field, a logmel that is not an
\* array) does not abort the tick: no exception leaves the listener, and
\* every signal of the snapshot that holds a color is drawn and has its
\* lastY updated.
C22_MalformedDoesNotAbort ==
  [][\A snap \in Snapshots :
       (signals' = <<snap>> /\ snap.bad # "" /\ Listener(snap)) =>
          /\ merr' = ""
          /\ \A s \in DOMAIN snap.vals :
               Lookup(lines', s) # 0 =>
                 /\ s \in DrawnSigs(canvas'.rows)
                 /\ s \in DOMAIN lastys'
                 /\ \E r \in canvas'.rows : r.sig = s /\ r.y = lastys'[s]]_vars

\* How often the name u stands in the unknown-signal area.
Written(unk, u) == Cardinality({k \in 1..Len(unk) : unk[k] = u})

\* C23 as stated: every undeclared name is written to the unknown-signal
\* area exactly once, in the first tick in which it appears, and a declared
\* name is never written there.
C23_FlaggedAtFirstAppearance ==
  [][/\ \A snap \in Snapshots :
          (variant # "util" /\ signals' = <<snap>> /\ Listener(snap)) =>
             \A u \in snap.extra : Written(unknown', u) = 1
     /\ \A k \in 1..Len(unknown') : unknown'[k] \in UndeclaredSigs]_vars

\* C27: two 'Could not parse JSON' diagnostics are never emitted within
\* 1000 ms of each other, and every malformed frame is dropped, with or
\* without a diagnostic: nothing is merged or dispatched for it.
C27_DiagnosticsRateLimited ==
  [][/\ \A i, j \in 1..Len(diags') : i < j => diags'[j] - diags'[i] > ParseInterval
     /\ \A f \in inflight :
          (~ParseOk(f.data) /\ f \notin inflight' /\ OnText(f)) =>
             /\ f.id \in dropped'
             /\ UNCHANGED <<last_json, merged, delivered, forwards>>
             /\ escaped' = ""]_vars

\* Two malformed frames were dropped with a diagnostic each, the second one
\* at the first clock reading that allows it.
C27_Witness ==
  /\ Len(diags) = 2
  /\ diags[2] - diags[1] = ParseInterval + 1
  /\ Cardinality(dropped) = 2

\* C25: a frame that is not a Blob, on the signals or on the animation
\* channel, raises 'unexpected data type' and does nothing else to the
\* router: no decode is started, nothing is merged into the baseline and no
\* listener is invoked.
C25_NonBlobOnlyThrows ==
  [][(last'.op \in {"nonblob", "animation"} /\ (OnSignalsNonBlob \/ OnAnimationNonBlob)) =>
        /\ escaped' = "unexpected data type"
        /\ UNCHANGED <<last_json, inflight, merged, delivered, forwards, dropped,
                       listeners, jsonListeners>>]_vars

\* A frame that is not a Blob has come in after a snapshot was forwarded
\* to a listener.
C25_Witness ==
  /\ last.op = "nonblob"
  /\ escaped = "unexpected data type"
  /\ forwards > 0
  /\ last_json # EmptyObj
  /\ delivered # <<>>

\* C26: remove_color(name) for a name that holds no color is a no-op in
\* every Lines variant.  The change listener of a checkbox runs it when the
\* box of such a name is unchecked: no error is raised and every
\* assignment, every timestamp and the free queue stay as they are.
C26_RemoveWithoutColorIsNoOp ==
  [][\A sig \in Sigs :
       (checked[sig] /\ ~checked'[sig] /\ ~HoldsColor(sig) /\ CheckboxChange(sig)) =>
          /\ lerr' = ""
          /\ lines' = lines
          /\ available' = available]_vars

\* C28: whenever set_next_color(name) runs with an empty free queue and at
\* least one assigned signal, exactly one signal is evicted and name ends up
\* holding a palette color, also when every assignment timestamp equals the
\* current clock reading.
C28_FullQueueEvictsExactlyOne ==
  [][\A sig \in Sigs :
       (/\ available = <<>>
        /\ AssignedSigs # {}
        /\ ~Assigned(sig)
        /\ RunsSetNextColor(sig)) =>
          /\ Cardinality({s \in AssignedSigs : ~(lines'[s].known /\ lines'[s].t # 0)}) = 1
          /\ lines'[sig].known
          /\ lines'[sig].color \in 1..PaletteSize]_vars

\* C24: once the observer has reported on the region, the consumer is
\* running exactly when the region is intersecting and the document is
\* visible, and suspended otherwise.
C24_RunningIffSeen ==
  region # "none" => (running <=> (region = "in" /\ visibility = "visible"))

\* C29: in every util variant Console.clear terminates for any number of
\* mirrored entries, and when it has returned the on-page console area
\* holds no entry.
C29_ClearTerminatesEmpty ==
  (cpc = "loop") ~> (cpc = "idle" /\ entries = <<>> /\ attached)

\* C30: at most one timer is pending per fun at any time, also when fun
\* itself calls debounce, and the pending timer is the one of the latest
\* call: it fires ms after that call, so a burst runs fun once, ms after
\* its last call.
C30_OneTimerOfLatestCall ==
  /\ Cardinality(timers) <= 1
  /\ \A t \in timers : t.left + burst = t.ms

====
